---- MODULE Spec2Model ----
(***************************************************************************)
(* Model of the ATP tennis analyzer: the Streamlit application             *)
(* (load_data, get_player_stats, plot_career_stats, plot_player_comparison,*)
(* plot_h2h_summary, plot_h2h_trend, plot_h2h_heatmap, main_app), the      *)
(* command-line program (load_data, main) and the career analyst of        *)
(* InitialCode.py (calculate_career_stats, run_tennis_analyst). Of the     *)
(* charts the data that is drawn is kept, not the drawing.                 *)
(*                                                                         *)
(* A DataFrame is a sequence of rows; every row carries its index label.   *)
(* A missing text field of the CSV file is the empty string (read_csv      *)
(* turns it into NaN); a missing number is the empty tuple.                *)
(***************************************************************************)
EXTENDS Integers, Sequences, FiniteSets, TLC

\* app: the program that was started on the file; csv: the rows of the data
\* file; year_range: the value of the Streamlit year slider; career: the
\* panel of the Streamlit career page; summary, trend, heatmap: the panels of
\* the Streamlit head-to-head page; cli_report: the player report of the
\* command-line program; cli_diff: its comparison heatmap; comparison: the
\* panel of the Streamlit two-player comparison page; notice: the warning
\* a Streamlit page shows in place of its panels; menu: the position of the
\* command-line loop with the answers of the current iteration; full_data:
\* the frame of the career analyst of InitialCode.py; analyst: the position
\* of its loop with the outcome of the last name entered
VARIABLES app, csv, year_range, career, summary, trend, heatmap,
          cli_report, cli_diff, comparison, notice, menu, full_data, analyst

vars == <<app, csv, year_range, career, summary, trend, heatmap,
          cli_report, cli_diff, comparison, notice, menu, full_data, analyst>>

\* the variables of each program
st_vars == <<year_range, career, summary, trend, heatmap, comparison, notice>>
cli_vars == <<cli_report, cli_diff, menu>>
analyst_vars == <<full_data, analyst>>

\* ---------------------------------------------------------------- bounds
MaxLen == 2
MaxDate == 2
MaxWins == 3

\* ------------------------------------------------------- input universes
Players == {"X", "Y", "Z"}

\* string categories in lexicographic order (the order of Python's sorted)
SurfaceOrder == <<"Clay", "Hard">>
RoundOrder == <<"F", "SF">>

Surfaces == {SurfaceOrder[i] : i \in 1..Len(SurfaceOrder)}
Rounds == {RoundOrder[i] : i \in 1..Len(RoundOrder)}

\* a missing text field (NaN after read_csv) and a missing number
NA == ""
NaN == <<>>
NaT == 0

\* ------------------------------------------------------- pandas helpers
isnull(x) == x = NA

RECURSIVE count_true(_)
\* Series.sum() of a boolean series
count_true(s) ==
  IF s = <<>> THEN 0
  ELSE (IF s[1] THEN 1 ELSE 0) + count_true(Tail(s))

\* the boolean series  frame[col] == value
Winner_eq(frame, player) == [i \in 1..Len(frame) |-> frame[i].Winner = player]

\* frame[mask]: the rows whose mask entry is true, in frame order
mask_select(frame, mask) ==
  LET F[i \in 0..Len(frame)] ==
        IF i = 0 THEN <<>>
        ELSE IF mask[i] THEN Append(F[i-1], frame[i]) ELSE F[i-1]
  IN F[Len(frame)]

\* ------------------------------------------------------------ load_data
\* pd.read_csv: one row per line, RangeIndex labels 0..n-1
read_csv(file) ==
  [i \in 1..Len(file) |->
     [index |-> i - 1, Date |-> file[i].Date,
      Player_1 |-> file[i].Player_1, Player_2 |-> file[i].Player_2,
      Winner |-> file[i].Winner,
      Surface |-> file[i].Surface, Round |-> file[i].Round]]

\* Streamlit load_data: rows with an unparsable date or a missing field go
\* mutant: rows without surface or round are kept
load_data_keeping_categories(file) ==
  LET df == read_csv(file)
      keep == [i \in 1..Len(df) |->
                 /\ df[i].Date # NaT
                 /\ ~isnull(df[i].Winner)
                 /\ ~isnull(df[i].Player_1)
                 /\ ~isnull(df[i].Player_2)]
  IN mask_select(df, keep)

load_data(file) ==
  LET df == read_csv(file)
      keep == [i \in 1..Len(df) |->
                 /\ df[i].Date # NaT
                 /\ ~isnull(df[i].Winner)
                 /\ ~isnull(df[i].Player_1)
                 /\ ~isnull(df[i].Player_2)
                 /\ ~isnull(df[i].Surface)
                 /\ ~isnull(df[i].Round)]
  IN mask_select(df, keep)

\* command-line load_data: nothing is dropped
cli_load_data(file) == read_csv(file)

\* ------------------------------------------------------ head-to-head
\* mutant: | in place of &, any match of either player is selected
h2h_mask_either_player(df, player1, player2) ==
  [i \in 1..Len(df) |->
     \/ (df[i].Player_1 = player1 \/ df[i].Player_2 = player2)
     \/ (df[i].Player_1 = player2 \/ df[i].Player_2 = player1)]

\* mutant: only the listed order (Player_1 = player1, Player_2 = player2)
h2h_mask_listed_order(df, player1, player2) ==
  [i \in 1..Len(df) |->
     (df[i].Player_1 = player1 /\ df[i].Player_2 = player2)]

\* the boolean mask of the head-to-head selection
h2h_mask(df, player1, player2) ==
  [i \in 1..Len(df) |->
     \/ (df[i].Player_1 = player1 /\ df[i].Player_2 = player2)
     \/ (df[i].Player_1 = player2 /\ df[i].Player_2 = player1)]

\* mutant: the win count taken from the Player_1 column
wins_by_first_column(frame, player) ==
  count_true([i \in 1..Len(frame) |-> frame[i].Player_1 = player])

\* (h2h_matches['Winner'] == player).sum()
\* mutant: only records that carry a surface are counted
wins_on_known_surface(frame, player) ==
  count_true([i \in 1..Len(frame) |->
                frame[i].Winner = player /\ ~isnull(frame[i].Surface)])

wins_of(frame, player) == count_true(Winner_eq(frame, player))

plot_h2h_summary(df, player1, player2) ==
  LET h2h_matches == mask_select(df, h2h_mask(df, player1, player2))
  IN IF h2h_matches = <<>>
     THEN [status |-> "empty", player1 |-> player1, player2 |-> player2]
     ELSE [status |-> "ok", player1 |-> player1, player2 |-> player2,
           p1_wins |-> wins_of(h2h_matches, player1),
           p2_wins |-> wins_of(h2h_matches, player2),
           total |-> Len(h2h_matches)]

\* ------------------------------------------------------------- trend
\* permutations of 1..n, as functions
Perms(n) == {p \in [1..n -> 1..n] : \A i, j \in 1..n : i # j => p[i] # p[j]}

\* frame.sort_values(by='Date') with the default kind='quicksort': the rows
\* in ascending Date order; the order of rows with equal dates is whatever
\* the sorting routine of the build leaves, so every ascending arrangement
\* is a possible result
sort_values_by_Date(frame) ==
  {[i \in 1..Len(frame) |-> frame[p[i]]] : p \in
     {q \in Perms(Len(frame)) :
        \A i, j \in 1..Len(frame) :
           i < j => frame[q[i]].Date <= frame[q[j]].Date}}

\* (frame['Winner'] == player).astype(int)
astype_int(s) == [i \in 1..Len(s) |-> IF s[i] THEN 1 ELSE 0]

\* mutant: the per-match indicator instead of the running total
cumsum_not_accumulating(s) == s

\* mutant: the running total before the current match
cumsum_exclusive(s) ==
  LET C[i \in 0..Len(s)] == IF i = 0 THEN 0 ELSE C[i-1] + s[i]
  IN [i \in 1..Len(s) |-> C[i-1]]

\* Series.cumsum(): a single left-to-right pass with a running total
cumsum(s) ==
  LET C[i \in 0..Len(s)] == IF i = 0 THEN 0 ELSE C[i-1] + s[i]
  IN [i \in 1..Len(s) |-> C[i]]

\* the trend frame built from the sorted head-to-head rows
trend_frame(h2h_matches, player1, player2) ==
  LET P1_Win == astype_int(Winner_eq(h2h_matches, player1))
      P2_Win == astype_int(Winner_eq(h2h_matches, player2))
      P1_Cum == cumsum(P1_Win)
      P2_Cum == cumsum(P2_Win)
  IN [i \in 1..Len(h2h_matches) |->
        [index |-> h2h_matches[i].index,
         Date |-> h2h_matches[i].Date,
         Winner |-> h2h_matches[i].Winner,
         P1_Win |-> P1_Win[i], P2_Win |-> P2_Win[i],
         P1_Cumulative_Wins |-> P1_Cum[i],
         P2_Cumulative_Wins |-> P2_Cum[i],
         Match_Number |-> i]]

\* mutant: no test for an empty selection
plot_h2h_trend_no_empty_test(df, player1, player2) ==
  {[status |-> "ok", player1 |-> player1, player2 |-> player2,
    rows |-> trend_frame(h2h_matches, player1, player2)] :
   h2h_matches \in
     sort_values_by_Date(mask_select(df, h2h_mask(df, player1, player2)))}

\* the set of results plot_h2h_trend can produce
plot_h2h_trend(df, player1, player2) ==
  {IF h2h_matches = <<>>
   THEN [status |-> "empty", player1 |-> player1, player2 |-> player2]
   ELSE [status |-> "ok", player1 |-> player1, player2 |-> player2,
         rows |-> trend_frame(h2h_matches, player1, player2)] :
   h2h_matches \in
     sort_values_by_Date(mask_select(df, h2h_mask(df, player1, player2)))}

\* ----------------------------------------------------------- heatmap
\* Python's sorted() on a set of category labels
\* mutant: the labels in descending order
sorted_descending(S, order) ==
  LET asc == SelectSeq(order, LAMBDA x : x \in S)
  IN [i \in 1..Len(asc) |-> asc[Len(asc) + 1 - i]]

\* sorted(list(set(...))): each label once, in ascending order
sorted(S, order) == SelectSeq(order, LAMBDA x : x \in S)

set(q) == {q[i] : i \in 1..Len(q)}

\* frame.groupby(["Surface", "Round"]).size(): one pass over the rows, a
\* count per observed (Surface, Round) key; rows with a missing key are
\* left out (dropna=True is the default)
\* mutant: every group counts 1
groupby_size_presence(frame) ==
  [k \in {<<frame[i].Surface, frame[i].Round>> : i \in 1..Len(frame)} \
          {k \in (Surfaces \cup {NA}) \X (Rounds \cup {NA}) :
             isnull(k[1]) \/ isnull(k[2])} |-> 1]

\* groupby(['Surface', 'Round']).size(): the count of every key that occurs,
\* rows with a missing key left out
groupby_size(frame) ==
  LET G[i \in 0..Len(frame)] ==
        IF i = 0 THEN <<>>
        ELSE LET k == <<frame[i].Surface, frame[i].Round>>
             IN IF isnull(k[1]) \/ isnull(k[2]) THEN G[i-1]
                ELSE IF k \in DOMAIN G[i-1]
                     THEN [G[i-1] EXCEPT ![k] = @ + 1]
                     ELSE [x \in (DOMAIN G[i-1]) \cup {k} |->
                             IF x = k THEN 1 ELSE G[i-1][x]]
  IN G[Len(frame)]

\* mutant: an inner join keeps only the keys both players have
merge_inner(heat1, heat2) ==
  [k \in (DOMAIN heat1) \cap (DOMAIN heat2) |->
     [P1 |-> <<heat1[k]>>, P2 |-> <<heat2[k]>>]]

\* pd.merge(heat1, heat2, on=["Surface", "Round"], how="outer"): one row per
\* key of either side, NaN in the column of the side that lacks the key
merge_outer(heat1, heat2) ==
  [k \in (DOMAIN heat1) \cup (DOMAIN heat2) |->
     [P1 |-> IF k \in DOMAIN heat1 THEN <<heat1[k]>> ELSE NaN,
      P2 |-> IF k \in DOMAIN heat2 THEN <<heat2[k]>> ELSE NaN]]

\* a cell of .fillna(0)
fillna(cell, value) == IF cell = NaN THEN <<value>> ELSE cell

merged_fillna(merged) ==
  [k \in DOMAIN merged |->
     [P1 |-> fillna(merged[k].P1, 0), P2 |-> fillna(merged[k].P2, 0)]]

\* merged.pivot(index="Surface", columns="Round", values=col): the labels
\* are the sorted distinct values, a combination without a row is NaN
pivot(merged, col) ==
  LET index == sorted({k[1] : k \in DOMAIN merged}, SurfaceOrder)
      columns == sorted({k[2] : k \in DOMAIN merged}, RoundOrder)
  IN [index |-> index, columns |-> columns,
      values |-> [c \in set(index) \X set(columns) |->
                    IF c \in DOMAIN merged THEN merged[c][col] ELSE NaN]]

pivot_fillna(p) ==
  [p EXCEPT !.values = [c \in DOMAIN p.values |-> fillna(p.values[c], 0)]]

\* frame.reindex(index=..., columns=..., fill_value=...)
reindex(p, index, columns, fill_value) ==
  [index |-> index, columns |-> columns,
   values |-> [c \in set(index) \X set(columns) |->
                 IF c \in DOMAIN p.values THEN p.values[c]
                 ELSE <<fill_value>>]]

\* mutant: the size of the difference, without its sign
frame_abs_diff(a, b) ==
  LET index == sorted(set(a.index) \cup set(b.index), SurfaceOrder)
      columns == sorted(set(a.columns) \cup set(b.columns), RoundOrder)
  IN [index |-> index, columns |-> columns,
      values |-> [c \in set(index) \X set(columns) |->
                    IF c \in DOMAIN a.values /\ c \in DOMAIN b.values
                       /\ a.values[c] # NaN /\ b.values[c] # NaN
                    THEN IF a.values[c][1] >= b.values[c][1]
                         THEN <<a.values[c][1] - b.values[c][1]>>
                         ELSE <<b.values[c][1] - a.values[c][1]>>
                    ELSE NaN]]

\* mutant: the two matrices added
frame_add(a, b) ==
  LET index == sorted(set(a.index) \cup set(b.index), SurfaceOrder)
      columns == sorted(set(a.columns) \cup set(b.columns), RoundOrder)
  IN [index |-> index, columns |-> columns,
      values |-> [c \in set(index) \X set(columns) |->
                    IF c \in DOMAIN a.values /\ c \in DOMAIN b.values
                       /\ a.values[c] # NaN /\ b.values[c] # NaN
                    THEN <<a.values[c][1] + b.values[c][1]>>
                    ELSE NaN]]

\* a - b on DataFrames: labels are aligned on their sorted union, a cell
\* that one side lacks is NaN
frame_sub(a, b) ==
  LET index == sorted(set(a.index) \cup set(b.index), SurfaceOrder)
      columns == sorted(set(a.columns) \cup set(b.columns), RoundOrder)
  IN [index |-> index, columns |-> columns,
      values |-> [c \in set(index) \X set(columns) |->
                    IF c \in DOMAIN a.values /\ c \in DOMAIN b.values
                       /\ a.values[c] # NaN /\ b.values[c] # NaN
                    THEN <<a.values[c][1] - b.values[c][1]>>
                    ELSE NaN]]

\* merge, pivot, align and subtract: the dense matrices and their difference
win_difference(heat1, heat2) ==
  LET merged == merged_fillna(merge_outer(heat1, heat2))
      pivot_p1 == pivot_fillna(pivot(merged, "P1"))
      pivot_p2 == pivot_fillna(pivot(merged, "P2"))
      all_surfaces == sorted(set(pivot_p1.index) \cup set(pivot_p2.index),
                             SurfaceOrder)
      all_rounds == sorted(set(pivot_p1.columns) \cup set(pivot_p2.columns),
                           RoundOrder)
      aligned_p1 == reindex(pivot_p1, all_surfaces, all_rounds, 0)
      aligned_p2 == reindex(pivot_p2, all_surfaces, all_rounds, 0)
  IN [pivot_p1 |-> aligned_p1, pivot_p2 |-> aligned_p2,
      diff |-> frame_sub(aligned_p1, aligned_p2)]

\* h2h_matches[['Surface', 'Round']].isnull().any().any()
any_category_null(frame) ==
  \E i \in 1..Len(frame) : isnull(frame[i].Surface) \/ isnull(frame[i].Round)

plot_h2h_heatmap(df, player1, player2) ==
  LET h2h_matches == mask_select(df, h2h_mask(df, player1, player2))
      p1_wins == mask_select(h2h_matches, Winner_eq(h2h_matches, player1))
      p2_wins == mask_select(h2h_matches, Winner_eq(h2h_matches, player2))
  IN IF h2h_matches = <<>>
     THEN [status |-> "empty", player1 |-> player1, player2 |-> player2]
     ELSE IF any_category_null(h2h_matches)
     THEN [status |-> "missing", player1 |-> player1, player2 |-> player2]
     ELSE [status |-> "ok", player1 |-> player1, player2 |-> player2,
           matrix |-> win_difference(groupby_size(p1_wins),
                                     groupby_size(p2_wins))]

\* the comparison heatmap of the command-line program: the wins of each
\* player in the whole dataset, no check for missing categories
cli_comparison_heatmap(df, selected_player, player2) ==
  LET p1_wins == mask_select(df, Winner_eq(df, selected_player))
      p2_wins == mask_select(df, Winner_eq(df, player2))
  IN [status |-> "ok", player1 |-> selected_player, player2 |-> player2,
      matrix |-> win_difference(groupby_size(p1_wins),
                                groupby_size(p2_wins))]

\* ------------------------------------------------------- year and era
\* df['Year'] = df['Date'].dt.year; day 1 of the files lies in 2009, every
\* further day one year later, so the files straddle the 2009/2010 boundary
\* of the command-line eras
Year(date) == 2008 + date

\* mutant: only the lower end of the slider is applied
filter_years_lower_only(df, range) ==
  mask_select(df, [i \in 1..Len(df) |-> Year(df[i].Date) >= range[1]])

\* df[(df['Year'] >= year_range[0]) & (df['Year'] <= year_range[1])]
filter_years(df, range) ==
  mask_select(df, [i \in 1..Len(df) |->
                     Year(df[i].Date) >= range[1]
                     /\ Year(df[i].Date) <= range[2]])

Min(S) == CHOOSE x \in S : \A y \in S : x <= y
Max(S) == CHOOSE x \in S : \A y \in S : x >= y

\* the values the year slider can take: min_year <= low <= high <= max_year;
\* without any row int(df['Year'].min()) fails and there is no slider
YearRanges(df) ==
  LET years == {Year(df[i].Date) : i \in 1..Len(df)}
  IN IF years = {} THEN {}
     ELSE {r \in (Min(years)..Max(years)) \X (Min(years)..Max(years)) :
             r[1] <= r[2]}

\* ------------------------------------------------------- career stats
\* a win rate (wins / total) * 100, kept exact as numerator and denominator
rate(wins, total) ==
  IF total > 0 THEN [num |-> wins * 100, den |-> total]
  ELSE [num |-> 0, den |-> 1]

\* the boolean mask  (Player_1 == name) | (Player_2 == name)
player_mask(df, player_name) ==
  [i \in 1..Len(df) |->
     df[i].Player_1 = player_name \/ df[i].Player_2 = player_name]

\* frame.groupby('Surface').size(): a count per observed surface, rows
\* without a surface left out, the groups in sorted label order
groupby_Surface_size(frame) ==
  LET G[i \in 0..Len(frame)] ==
        IF i = 0 THEN <<>>
        ELSE LET k == frame[i].Surface
             IN IF isnull(k) THEN G[i-1]
                ELSE IF k \in DOMAIN G[i-1]
                     THEN [G[i-1] EXCEPT ![k] = @ + 1]
                     ELSE [x \in (DOMAIN G[i-1]) \cup {k} |->
                             IF x = k THEN 1 ELSE G[i-1][x]]
      size == G[Len(frame)]
      labels == sorted(DOMAIN size, SurfaceOrder)
  IN [i \in 1..Len(labels) |-> [Surface |-> labels[i], Wins |-> size[labels[i]]]]

get_player_stats(df, player_name) ==
  LET player_matches == mask_select(df, player_mask(df, player_name))
      wins == wins_of(player_matches, player_name)
      total_matches == Len(player_matches)
  IN [total_matches |-> total_matches,
      win_rate |-> rate(wins, total_matches),
      surface_wins |->
        groupby_Surface_size(
          mask_select(player_matches, Winner_eq(player_matches, player_name)))]

\* mutant: no test for an empty selection
plot_career_stats_no_empty_test(df, player_name) ==
  LET stats == get_player_stats(df, player_name)
  IN [status |-> "ok", player |-> player_name,
      total_matches |-> stats.total_matches,
      win_rate |-> stats.win_rate,
      wins |-> (stats.total_matches * stats.win_rate.num)
                 \div (stats.win_rate.den * 100),
      surface_wins |-> stats.surface_wins]

\* the career page: the info message for a player without matches, else the
\* metrics and the wins by surface; the wins shown are recomputed as
\* total_matches * win_rate / 100
plot_career_stats(df, player_name) ==
  LET stats == get_player_stats(df, player_name)
  IN IF stats.total_matches = 0
     THEN [status |-> "empty", player |-> player_name]
     ELSE [status |-> "ok", player |-> player_name,
           total_matches |-> stats.total_matches,
           win_rate |-> stats.win_rate,
           wins |-> (stats.total_matches * stats.win_rate.num)
                      \div (stats.win_rate.den * 100),
           surface_wins |-> stats.surface_wins]

\* the comparison page: the career figures of both players; the win-rate
\* difference is shown when both have matches
plot_player_comparison(df, player1, player2) ==
  LET stats1 == get_player_stats(df, player1)
      stats2 == get_player_stats(df, player2)
  IN [status |-> "ok", player1 |-> player1, player2 |-> player2,
      total1 |-> stats1.total_matches, rate1 |-> stats1.win_rate,
      total2 |-> stats2.total_matches, rate2 |-> stats2.win_rate,
      delta |-> stats1.total_matches > 0 /\ stats2.total_matches > 0,
      surface_wins1 |-> stats1.surface_wins,
      surface_wins2 |-> stats2.surface_wins]

\* ------------------------------------------------ command-line report
\* step 1 of the command-line loop: the rows the ranking is taken from
\* mutant: the years at the bounds of an era are left out
era_df_exclusive(df, choice) ==
  LET chosen ==
        IF choice = "2"
        THEN mask_select(df, [i \in 1..Len(df) |->
               Year(df[i].Date) > 2000 /\ Year(df[i].Date) < 2009])
        ELSE IF choice = "3"
        THEN mask_select(df, [i \in 1..Len(df) |->
               Year(df[i].Date) > 2010 /\ Year(df[i].Date) < 2019])
        ELSE IF choice = "4"
        THEN mask_select(df, [i \in 1..Len(df) |-> Year(df[i].Date) > 2020])
        ELSE df
  IN IF chosen = <<>> THEN df ELSE chosen

era_df(df, choice) ==
  LET chosen ==
        IF choice = "2"
        THEN mask_select(df, [i \in 1..Len(df) |->
               Year(df[i].Date) >= 2000 /\ Year(df[i].Date) <= 2009])
        ELSE IF choice = "3"
        THEN mask_select(df, [i \in 1..Len(df) |->
               Year(df[i].Date) >= 2010 /\ Year(df[i].Date) <= 2019])
        ELSE IF choice = "4"
        THEN mask_select(df, [i \in 1..Len(df) |-> Year(df[i].Date) >= 2020])
        ELSE df
  IN IF chosen = <<>> THEN df ELSE chosen

\* wins['Surface'].value_counts() as a mapping surface -> count; rows
\* without a surface are not counted
value_counts_Surface(frame) ==
  LET by_surface == groupby_Surface_size(frame)
  IN [s \in {by_surface[i].Surface : i \in 1..Len(by_surface)} |->
        (CHOOSE g \in set(by_surface) : g.Surface = s).Wins]

\* step 4 of the command-line loop: the report for the selected player; it
\* does not name the era
cli_player_report(df, selected_player) ==
  LET matches == mask_select(df, player_mask(df, selected_player))
      wins == mask_select(df, Winner_eq(df, selected_player))
      total == Len(matches)
  IN [status |-> "ok",
      selected_player |-> selected_player,
      total |-> total,
      wins |-> Len(wins),
      win_rate |-> rate(Len(wins), total),
      surf |-> value_counts_Surface(wins)]

\* ------------------------------------------- InitialCode.py: analyst
\* Python's None, and a value that is not None, in a tuple
PyNone == <<>>

\* the texts typed at the name prompt
Typed == {"", " ", "X", " X ", "Y", "exit", "Exit", " EXIT"}

\* str.strip() on the typed texts
strip(text) ==
  CASE text = " " -> ""
    [] text = " X " -> "X"
    [] text = " EXIT" -> "EXIT"
    [] OTHER -> text

\* str.lower() on the stripped texts
lower(text) ==
  CASE text = "X" -> "x"
    [] text = "Y" -> "y"
    [] text \in {"Exit", "EXIT"} -> "exit"
    [] OTHER -> text

\* sorted(full_data['Player'].unique().tolist()), as a set
available_players(df) == {df[i].Player : i \in 1..Len(df)}

\* calculate_career_stats: the pair (stats, error); of the statistics the
\* matches, the wins and the win rate are kept
calculate_career_stats(df, player_name) ==
  LET player_data == mask_select(df, [i \in 1..Len(df) |->
                                       df[i].Player = player_name])
      total_matches == Len(player_data)
      total_wins == count_true([i \in 1..Len(player_data) |->
                                  player_data[i].Result = "Win"])
  IN IF player_data = <<>>
     THEN <<PyNone, <<"Player not found or data missing.">>>>
     ELSE <<<<[Total_Matches |-> total_matches,
               Total_Wins |-> total_wins,
               Overall_Win_Rate |-> rate(total_wins, total_matches)]>>,
            PyNone>>

\* ---------------------------------------------------------------- state
None == [status |-> "none"]

Row(d, pr, w, s, r) ==
  [Date |-> d, Player_1 |-> pr[1], Player_2 |-> pr[2], Winner |-> w,
   Surface |-> s, Round |-> r]

\* the kinds of match of the dated files, as (listed pair, winner): X beats
\* Y, Y beats X with Y listed first, X against Y with a winner who is neither,
\* and a match of X against the third player Z
MatchKinds ==
  {<<<<"X", "Y">>, "X">>, <<<<"Y", "X">>, "Y">>,
   <<<<"X", "Y">>, "Z">>, <<<<"X", "Z">>, "Z">>}

\* rows of the dated files: every kind of match on every date
DatedRows ==
  {Row(d, k[1], k[2], "Clay", "F") : d \in 1..MaxDate, k \in MatchKinds}

SeqsUpTo(S, n) == UNION {[1..k -> S] : k \in 0..n}

\* rows of the category files: X against Y won by either, every combination
\* of surface and round, and the two kinds of incomplete row
CategoryPairs ==
  (Surfaces \X Rounds) \cup {<<NA, RoundOrder[1]>>, <<SurfaceOrder[1], NA>>}

CategoryRows ==
  {Row(1, <<"X", "Y">>, w, c[1], c[2]) : w \in {"X", "Y"}, c \in CategoryPairs}

\* rows of the surface files: X beats Y, on every surface
SurfaceRows ==
  {Row(1, <<"X", "Y">>, "X", sf, RoundOrder[1]) : sf \in Surfaces}

Apps == {"streamlit", "cli"}

NoOutput ==
  /\ app \in Apps
  /\ year_range = None
  /\ career = None
  /\ summary = None
  /\ trend = None
  /\ heatmap = None
  /\ cli_report = None
  /\ cli_diff = None
  /\ comparison = None
  /\ notice = None
  /\ menu = [pc |-> "era"]
  /\ full_data = <<>>
  /\ analyst = None

Init ==
  /\ csv \in SeqsUpTo(DatedRows, MaxLen)
  /\ NoOutput

InitHeat ==
  /\ csv \in SeqsUpTo(CategoryRows, MaxLen)
  /\ NoOutput

InitSurface ==
  /\ csv \in SeqsUpTo(SurfaceRows, MaxWins)
  /\ NoOutput

all_players(df) ==
  {df[i].Player_1 : i \in 1..Len(df)} \cup {df[i].Player_2 : i \in 1..Len(df)}

\* sorted(...unique()) of the player names
PlayerOrder == <<"X", "Y", "Z">>

\* the value of the year slider before the rerun: (min_year, max_year) until
\* it is moved
slider(df) ==
  IF year_range = None
  THEN LET years == {Year(df[i].Date) : i \in 1..Len(df)}
       IN <<Min(years), Max(years)>>
  ELSE year_range

\* the page that is on display, "" before the first run
analysis_mode ==
  IF career # None THEN "Career Stats"
  ELSE IF summary # None THEN "Head-to-Head Comparison"
  ELSE IF comparison # None THEN "Two-Player Lifetime Comparison"
  ELSE IF notice # None THEN notice.analysis_mode
  ELSE ""

\* the two players selected on the page on display
selected_pair ==
  IF summary # None THEN <<summary.player1, summary.player2>>
  ELSE IF comparison # None THEN <<comparison.player1, comparison.player2>>
  ELSE <<notice.player1, notice.player2>>

\* the selectbox defaults: index 0, and index 1 for the second player when
\* there is one (none of the three default names is in the files)
default_players(df) ==
  LET names == sorted(all_players(df), PlayerOrder)
  IN <<names[1], IF Len(names) > 1 THEN names[2] ELSE names[1]>>

\* a rerun follows the change of one widget: on the page on display the
\* slider or one selectbox has a new value; a page that is newly selected, or
\* run for the first time, comes up with the current slider and its defaults
one_widget_career(df, range, selected_player) ==
  IF analysis_mode = "Career Stats"
  THEN range = slider(df) \/ selected_player = career.player
  ELSE range = slider(df) /\ selected_player = default_players(df)[1]

one_widget_pair(df, mode, range, player1, player2) ==
  IF analysis_mode = mode
  THEN \/ range = slider(df) /\ player1 = selected_pair[1]
       \/ range = slider(df) /\ player2 = selected_pair[2]
       \/ <<player1, player2>> = selected_pair
  ELSE /\ analysis_mode # ""
       /\ range = slider(df)
       /\ <<player1, player2>> = default_players(df)

\* the career page of the Streamlit application, the page of the first run:
\* one rerun filters the frame by the year slider and draws the career panel
\* of the selected player
main_app_career ==
  LET df == load_data(csv)
  IN /\ app = "streamlit"
     /\ \E range \in YearRanges(df), selected_player \in all_players(df) :
       /\ one_widget_career(df, range, selected_player)
       /\ year_range' = range
       /\ career' = plot_career_stats(filter_years(df, range), selected_player)
       /\ summary' = None
       /\ trend' = None
       /\ heatmap' = None
       /\ comparison' = None
       /\ notice' = None
       /\ UNCHANGED <<app, csv, cli_vars, analyst_vars>>

\* st.warning of a page on which one player is selected twice
warning(mode, player1, player2) ==
  [status |-> "warning", analysis_mode |-> mode,
   player1 |-> player1, player2 |-> player2]

\* the head-to-head page of the Streamlit application: one rerun filters the
\* frame by the year slider and draws the summary, the trend and the heatmap
\* for two different players, or the warning for one player selected twice
\* mutant: the year-filtered rows replace the loaded file
main_app_h2h_keeping_filtered ==
  LET df == load_data(csv)
  IN /\ app = "streamlit"
     /\ \E range \in YearRanges(df),
           player1 \in all_players(df), player2 \in all_players(df) :
          /\ one_widget_pair(df, "Head-to-Head Comparison", range, player1, player2)
          /\ player1 # player2
          /\ year_range' = range
          /\ career' = None
          /\ comparison' = None
          /\ notice' = None
          /\ LET df_filtered == filter_years(df, range)
             IN /\ summary' = plot_h2h_summary(df_filtered, player1, player2)
                /\ trend' \in plot_h2h_trend(df_filtered, player1, player2)
                /\ heatmap' = plot_h2h_heatmap(df_filtered, player1, player2)
                /\ csv' = [i \in 1..Len(df_filtered) |->
                            [f \in DOMAIN csv[1] |-> df_filtered[i][f]]]
          /\ UNCHANGED <<app, cli_vars, analyst_vars>>

main_app_h2h ==
  LET df == load_data(csv)
  IN /\ app = "streamlit"
     /\ \E range \in YearRanges(df),
           player1 \in all_players(df), player2 \in all_players(df) :
       /\ one_widget_pair(df, "Head-to-Head Comparison", range, player1, player2)
       /\ year_range' = range
       /\ career' = None
       /\ comparison' = None
       /\ IF player1 # player2
          THEN LET df_filtered == filter_years(df, range)
               IN /\ summary' = plot_h2h_summary(df_filtered, player1, player2)
                  /\ trend' \in plot_h2h_trend(df_filtered, player1, player2)
                  /\ heatmap' = plot_h2h_heatmap(df_filtered, player1, player2)
                  /\ notice' = None
          ELSE /\ summary' = None
               /\ trend' = None
               /\ heatmap' = None
               /\ notice' = warning("Head-to-Head Comparison", player1, player2)
       /\ UNCHANGED <<app, csv, cli_vars, analyst_vars>>

\* mutant: the comparison is drawn for every selection, equal players too
main_app_comparison_unguarded ==
  LET df == load_data(csv)
  IN /\ app = "streamlit"
     /\ \E range \in YearRanges(df),
           player1 \in all_players(df), player2 \in all_players(df) :
       /\ one_widget_pair(df, "Two-Player Lifetime Comparison", range, player1, player2)
       /\ year_range' = range
       /\ career' = None
       /\ summary' = None
       /\ trend' = None
       /\ heatmap' = None
       /\ comparison' = plot_player_comparison(filter_years(df, range),
                                               player1, player2)
       /\ notice' = None
       /\ UNCHANGED <<app, csv, cli_vars, analyst_vars>>

\* the two-player comparison page of the Streamlit application: the career
\* figures of two different players side by side, a warning for one player
\* selected twice
main_app_comparison ==
  LET df == load_data(csv)
  IN /\ app = "streamlit"
     /\ \E range \in YearRanges(df),
           player1 \in all_players(df), player2 \in all_players(df) :
       /\ one_widget_pair(df, "Two-Player Lifetime Comparison", range, player1, player2)
       /\ year_range' = range
       /\ career' = None
       /\ summary' = None
       /\ trend' = None
       /\ heatmap' = None
       /\ IF player1 # player2
          THEN /\ comparison' = plot_player_comparison(filter_years(df, range),
                                                       player1, player2)
               /\ notice' = None
          ELSE /\ comparison' = None
               /\ notice' = warning("Two-Player Lifetime Comparison",
                                    player1, player2)
       /\ UNCHANGED <<app, csv, cli_vars, analyst_vars>>

\* df['Winner'].unique() without the missing value
winners_unique(df) == {df[i].Winner : i \in 1..Len(df)} \ {NA}

\* ------------------------------------------------- command-line loop
\* the numbers that are typed at the prompts, as text
Numerals == <<"-1", "0", "1", "2", "3">>

\* int(text): the number in a 1-tuple, the empty tuple for ValueError
int(text) ==
  IF \E i \in 1..Len(Numerals) : Numerals[i] = text
  THEN <<(CHOOSE i \in 1..Len(Numerals) : Numerals[i] = text) - 2>>
  ELSE <<>>

\* the answers to the era prompt other than 'q'; "x" is an invalid choice
EraChoices == {"1", "2", "3", "4", "x"}

\* the answers to the top-N prompt; "x" is not a number
TopNInputs == {"0", "1", "x"}

\* the answers to the player prompt
Selections == {"x", "-1", "0", "1", "2"}

\* the answers to the chart prompt other than "2"
SkipChoices == {"1", "q"}

\* era_df['Winner'].value_counts(): the winners by count descending; the
\* order among equal counts is left to the sort
value_counts_Winner(frame) ==
  LET names == winners_unique(frame)
      n == Cardinality(names)
  IN {q \in [1..n -> names] :
        /\ \A i, j \in 1..n : i # j => q[i] # q[j]
        /\ \A i, j \in 1..n :
             i < j => count_true(Winner_eq(frame, q[i]))
                        >= count_true(Winner_eq(frame, q[j]))}

\* .head(n) for n >= 0
head(q, n) == SubSeq(q, 1, IF n < Len(q) THEN n ELSE Len(q))

\* q[k] of a Python list: k from 0, a negative k from the end; the empty
\* tuple for IndexError
list_index(q, k) ==
  IF k >= 0 /\ k < Len(q) THEN <<q[k + 1]>>
  ELSE IF k < 0 /\ k >= 0 - Len(q) THEN <<q[Len(q) + k + 1]>>
  ELSE <<>>

\* step 1 of the command-line loop: a new iteration starts; 'q' ends the
\* program, every other answer is kept as the era choice
main_era ==
  /\ app = "cli"
  /\ menu.pc = "era"
  /\ \E choice \in EraChoices \cup {"q"} :
       menu' = IF choice = "q" THEN [pc |-> "done", reason |-> "quit"]
               ELSE [pc |-> "top_n", choice |-> choice]
  /\ cli_report' = None
  /\ cli_diff' = None
  /\ UNCHANGED <<app, csv, st_vars, analyst_vars>>

\* step 2 of the command-line loop: the number of players, the era rows with
\* the fallback to the whole dataset, and the ranking; the program returns
\* when the ranking is empty
main_top_n ==
  LET df == cli_load_data(csv)
  IN /\ app = "cli"
     /\ menu.pc = "top_n"
     /\ \E text \in TopNInputs :
          LET top_n == IF int(text) = <<>> THEN 5 ELSE int(text)[1]
          IN \E top_winners \in value_counts_Winner(era_df(df, menu.choice)) :
               LET top_players_list == head(top_winners, top_n)
               IN menu' = IF top_players_list = <<>>
                          THEN [pc |-> "done", reason |-> "no_winners",
                                choice |-> menu.choice, top_n |-> top_n]
                          ELSE [pc |-> "select", choice |-> menu.choice,
                                top_n |-> top_n,
                                top_players_list |-> top_players_list]
     /\ UNCHANGED <<app, csv, cli_report, cli_diff, st_vars, analyst_vars>>

\* steps 3 and 4 of the command-line loop: the player is picked by position
\* and the report is printed; an answer that raises restarts the loop
main_select ==
  LET df == cli_load_data(csv)
  IN /\ app = "cli"
     /\ menu.pc = "select"
     /\ \E text \in Selections :
          LET picked == IF int(text) = <<>> THEN <<>>
                        ELSE list_index(menu.top_players_list,
                                        int(text)[1] - 1)
          IN IF picked = <<>>
             THEN /\ menu' = [pc |-> "era", invalid |-> text,
                              N |-> Len(menu.top_players_list)]
                  /\ UNCHANGED cli_report
             ELSE /\ menu' = [pc |-> "visuals", choice |-> menu.choice,
                              selection |-> text,
                              N |-> Len(menu.top_players_list)]
                  /\ cli_report' = cli_player_report(df, picked[1])
     /\ UNCHANGED <<app, csv, cli_diff, st_vars, analyst_vars>>

\* mutant: an unknown second player ends the program
main_compare_returning ==
  LET df == cli_load_data(csv)
  IN /\ app = "cli"
     /\ menu.pc = "visuals"
     /\ \E player2 \in Players :
          IF player2 \notin winners_unique(df)
          THEN /\ menu' = [pc |-> "done", reason |-> "not_found"]
               /\ UNCHANGED cli_diff
          ELSE /\ menu' = [pc |-> "era"]
               /\ cli_diff' = cli_comparison_heatmap(
                                df, cli_report.selected_player, player2)
     /\ UNCHANGED <<app, csv, cli_report, st_vars, analyst_vars>>

\* option 2 of step 5: compare the selected player with a second player
\* named at the prompt; an unknown name restarts the loop
main_compare ==
  LET df == cli_load_data(csv)
  IN /\ app = "cli"
     /\ menu.pc = "visuals"
     /\ \E player2 \in Players :
          IF player2 \notin winners_unique(df)
          THEN /\ menu' = [pc |-> "era", not_found |-> player2]
               /\ UNCHANGED cli_diff
          ELSE /\ menu' = [pc |-> "era"]
               /\ cli_diff' = cli_comparison_heatmap(
                                df, cli_report.selected_player, player2)
     /\ UNCHANGED <<app, csv, cli_report, st_vars, analyst_vars>>

\* option 1 of step 5 and every other answer: the charts of the selected
\* player are shown, or skipped, and the loop restarts
main_charts_or_skip ==
  /\ app = "cli"
  /\ menu.pc = "visuals"
  /\ \E vis_choice \in SkipChoices : menu' = [pc |-> "era"]
  /\ UNCHANGED <<app, csv, cli_report, cli_diff, st_vars, analyst_vars>>

\* the Streamlit application
main_app == main_app_career \/ main_app_h2h \/ main_app_comparison

\* the command-line program
main ==
  \/ main_era
  \/ main_top_n
  \/ main_select
  \/ main_compare
  \/ main_charts_or_skip

Next == main_app \/ main

\* ------------------------------------------- InitialCode.py: the loop
\* rows of the analyst's frame: a name, a surface and a result
AnalystRows ==
  {[Player |-> n, Surface |-> SurfaceOrder[1], Result |-> r] :
     n \in {"X", "x", "Exit"}, r \in {"Win", "Loss"}}

InitAnalyst ==
  /\ app = "analyst"
  /\ csv = <<>>
  /\ year_range = None
  /\ career = None
  /\ summary = None
  /\ trend = None
  /\ heatmap = None
  /\ cli_report = None
  /\ cli_diff = None
  /\ comparison = None
  /\ notice = None
  /\ menu = [pc |-> "era"]
  /\ full_data \in SeqsUpTo(AnalystRows, MaxLen)
  /\ analyst = [pc |-> "start"]

\* run_tennis_analyst up to its loop: an empty frame ends the program
run_tennis_analyst_load ==
  /\ app = "analyst"
  /\ analyst.pc = "start"
  /\ analyst' = IF full_data = <<>> THEN [pc |-> "done", fatal |-> TRUE]
                ELSE [pc |-> "prompt"]
  /\ UNCHANGED <<app, csv, st_vars, cli_vars, full_data>>

\* mutant: the name is analysed without looking it up among the players
run_tennis_analyst_input_unchecked ==
  /\ app = "analyst"
  /\ analyst.pc = "prompt"
  /\ \E text \in Typed :
       LET player_input == strip(text)
       IN analyst' =
            IF lower(player_input) = "exit"
            THEN [pc |-> "done", text |-> text]
            ELSE IF player_input = ""
            THEN [pc |-> "prompt", text |-> text, called |-> FALSE]
            ELSE [pc |-> "prompt", text |-> text, called |-> TRUE,
                  player_input |-> player_input,
                  result |-> calculate_career_stats(full_data, player_input)]
  /\ UNCHANGED <<app, csv, st_vars, cli_vars, full_data>>

\* one pass of the loop of run_tennis_analyst: 'exit' ends it, an empty or
\* unknown name asks again, a known name is analysed
run_tennis_analyst_input ==
  /\ app = "analyst"
  /\ analyst.pc = "prompt"
  /\ \E text \in Typed :
       LET player_input == strip(text)
       IN analyst' =
            IF lower(player_input) = "exit"
            THEN [pc |-> "done", text |-> text]
            ELSE IF player_input = ""
            THEN [pc |-> "prompt", text |-> text, called |-> FALSE]
            ELSE IF player_input \notin available_players(full_data)
            THEN [pc |-> "prompt", text |-> text, called |-> FALSE]
            ELSE [pc |-> "prompt", text |-> text, called |-> TRUE,
                  player_input |-> player_input,
                  result |-> calculate_career_stats(full_data, player_input)]
  /\ UNCHANGED <<app, csv, st_vars, cli_vars, full_data>>

run_tennis_analyst == run_tennis_analyst_load \/ run_tennis_analyst_input

SpecAnalyst == InitAnalyst /\ [][run_tennis_analyst]_vars

\* ------------------------------------------------- the era boundaries
\* dates of the years 2009, 2010, 2019 and 2020
EraDates == {1, 2, 11, 12}

\* rows of the era files: X against Y on the dates around the era bounds
EraRows ==
  {Row(d, <<"X", "Y">>, w, SurfaceOrder[1], RoundOrder[1]) :
     d \in EraDates, w \in {"X", "Y"}}

InitEra ==
  /\ csv \in SeqsUpTo(EraRows, MaxLen)
  /\ NoOutput
  /\ app = "cli"

SpecEra == InitEra /\ [][main]_vars

Spec == Init /\ [][Next]_vars

SpecHeat == InitHeat /\ [][Next]_vars

SpecSurface == InitSurface /\ [][Next]_vars

\* ------------------------------------------------- head-to-head claims
\* the frame the Streamlit pages work on: the loaded rows of the selected
\* years
st_frame(file) ==
  IF year_range = None THEN load_data(file)
  ELSE filter_years(load_data(file), year_range)

st_df == st_frame(csv)

\* positions of the records of frame whose participants are {p1, p2}
H2HSet(frame, p1, p2) ==
  {i \in 1..Len(frame) : {frame[i].Player_1, frame[i].Player_2} = {p1, p2}}

\* no record of the pair has a winner outside the pair
WellFormed(frame, p1, p2) ==
  \A i \in H2HSet(frame, p1, p2) : frame[i].Winner \in {p1, p2}

\* C1: for distinct p1, p2 whose records all have winner p1 or p2, the
\* head-to-head summary has wins[p1] + wins[p2] = total_matches
C1_WinsSumToTotal ==
  (summary.status = "ok"
     /\ WellFormed(st_df, summary.player1, summary.player2))
  => summary.p1_wins + summary.p2_wins = summary.total

C1_Witness ==
  /\ summary.status = "ok"
  /\ WellFormed(st_df, summary.player1, summary.player2)
  /\ summary.p1_wins = 1
  /\ summary.p2_wins = 1
  /\ \E i \in H2HSet(st_df, summary.player1, summary.player2) :
       st_df[i].Player_1 = summary.player2

\* rows with participants {p1, p2} and a winner who is neither
MalformedRows(p1, p2) ==
  {Row(d, pr, w, SurfaceOrder[1], RoundOrder[1]) :
     d \in 1..MaxDate, pr \in {<<p1, p2>>, <<p2, p1>>},
     w \in Players \ {p1, p2}}

\* C2: a record of the pair whose winner is neither player is excluded from
\* total_matches and from both win counts: the summary of the record set
\* with such a record added equals the summary without it
C2_MalformedExcluded ==
  summary.status = "ok" =>
    \A m \in MalformedRows(summary.player1, summary.player2) :
      LET more == plot_h2h_summary(st_frame(Append(csv, m)),
                                   summary.player1, summary.player2)
      IN /\ more.total = summary.total
         /\ more.p1_wins = summary.p1_wins
         /\ more.p2_wins = summary.p2_wins

\* C7: the trend walks the head-to-head records in ascending date order and
\* records with equal dates keep their order in the record set
C7_StableDateOrder ==
  trend.status = "ok" =>
    /\ {trend.rows[i].index : i \in 1..Len(trend.rows)}
         = {st_df[k].index : k \in H2HSet(st_df, trend.player1, trend.player2)}
    /\ Len(trend.rows)
         = Cardinality(H2HSet(st_df, trend.player1, trend.player2))
    /\ \A i, j \in 1..Len(trend.rows) :
         i < j =>
           /\ trend.rows[i].Date <= trend.rows[j].Date
           /\ trend.rows[i].Date = trend.rows[j].Date
                => trend.rows[i].index < trend.rows[j].index

\* C8: one point per head-to-head record, numbered 1..n, and at match
\* number i each cumulative value is the number of wins of that player among
\* the first i records of the walked sequence
C8_CumulativeCounts ==
  trend.status = "ok" =>
    /\ Len(trend.rows)
         = Cardinality(H2HSet(st_df, trend.player1, trend.player2))
    /\ {trend.rows[i].index : i \in 1..Len(trend.rows)}
         = {st_df[k].index : k \in H2HSet(st_df, trend.player1, trend.player2)}
    /\ \A i \in 1..Len(trend.rows) :
         /\ trend.rows[i].Match_Number = i
         /\ trend.rows[i].P1_Cumulative_Wins
              = Cardinality({j \in 1..i : trend.rows[j].Winner = trend.player1})
         /\ trend.rows[i].P2_Cumulative_Wins
              = Cardinality({j \in 1..i : trend.rows[j].Winner = trend.player2})

C8_Witness ==
  /\ trend.status = "ok"
  /\ Len(trend.rows) >= 2
  /\ trend.rows[1].Date < trend.rows[2].Date
  /\ trend.rows[1].index > trend.rows[2].index
  /\ trend.rows[1].Winner = trend.player2
  /\ trend.rows[2].Winner = trend.player1
  /\ trend.rows[2].P1_Cumulative_Wins = 1
  /\ trend.rows[2].P2_Cumulative_Wins = 1

\* C9: each player's cumulative count never decreases along the match
\* numbers and rises by at most 1 from one position to the next
C9_MonotoneBySteps ==
  trend.status = "ok" =>
    \A i \in 1..(Len(trend.rows) - 1) :
      /\ trend.rows[i].P1_Cumulative_Wins <= trend.rows[i+1].P1_Cumulative_Wins
      /\ trend.rows[i+1].P1_Cumulative_Wins
           <= trend.rows[i].P1_Cumulative_Wins + 1
      /\ trend.rows[i].P2_Cumulative_Wins <= trend.rows[i+1].P2_Cumulative_Wins
      /\ trend.rows[i+1].P2_Cumulative_Wins
           <= trend.rows[i].P2_Cumulative_Wins + 1

C9_Witness ==
  /\ trend.status = "ok"
  /\ \E i \in 1..(Len(trend.rows) - 1) :
       /\ trend.rows[i+1].P1_Cumulative_Wins
            = trend.rows[i].P1_Cumulative_Wins + 1
       /\ trend.rows[i+1].P2_Cumulative_Wins
            = trend.rows[i].P2_Cumulative_Wins
       /\ trend.rows[i].P2_Cumulative_Wins = 1

\* C10: for a nonempty head-to-head subset the last entry of the trend
\* equals the summary's (wins[p1], wins[p2]) on the same record set
C10_LastEntryIsSummary ==
  trend.status = "ok" =>
    /\ summary.status = "ok"
    /\ summary.player1 = trend.player1
    /\ summary.player2 = trend.player2
    /\ trend.rows[Len(trend.rows)].P1_Cumulative_Wins = summary.p1_wins
    /\ trend.rows[Len(trend.rows)].P2_Cumulative_Wins = summary.p2_wins

C10_Witness ==
  /\ trend.status = "ok"
  /\ summary.status = "ok"
  /\ summary.total >= 2
  /\ summary.p1_wins >= 1
  /\ trend.rows[Len(trend.rows)].P1_Cumulative_Wins = summary.p1_wins
  /\ trend.rows[1].P1_Cumulative_Wins < summary.p1_wins

\* ---------------------------------------------- difference-matrix claims
\* the frame the command-line program works on
cli_df == cli_load_data(csv)

\* all positions of a frame: the command-line comparison takes the wins of
\* each player from the whole dataset
AllRows(frame) == 1..Len(frame)

\* the grouping of a player: the number of records of the selection I won by
\* w on surface s in round r
CountCell(frame, I, w, s, r) ==
  Cardinality({i \in I : /\ frame[i].Winner = w
                         /\ frame[i].Surface = s
                         /\ frame[i].Round = r})

\* the (surface, round) keys of the grouping of w
Keys(frame, I, w) ==
  {c \in Surfaces \X Rounds : CountCell(frame, I, w, c[1], c[2]) > 0}

\* every cell of the matrix is A's count minus B's count, and every key of
\* either grouping is a cell
CellsAreDifferences(panel, frame, I) ==
  LET values == panel.matrix.diff.values
  IN \A c \in Surfaces \X Rounds :
       LET a == CountCell(frame, I, panel.player1, c[1], c[2])
           b == CountCell(frame, I, panel.player2, c[1], c[2])
       IN /\ (a > 0 \/ b > 0) => c \in DOMAIN values
          /\ c \in DOMAIN values => values[c] = <<a - b>>

\* C3: every cell (s, r) of the difference matrix is A's count at (s, r)
\* minus B's count at (s, r), a key absent from a grouping counting as 0,
\* also for the cells present in only one grouping
C3_CellIsDifference ==
  /\ heatmap.status = "ok" =>
       CellsAreDifferences(heatmap, st_df,
                           H2HSet(st_df, heatmap.player1, heatmap.player2))
  /\ cli_diff.status = "ok" =>
       CellsAreDifferences(cli_diff, cli_df, AllRows(cli_df))

C3_Witness ==
  /\ heatmap.status = "ok"
  /\ \E c, d \in DOMAIN heatmap.matrix.diff.values :
       LET I == H2HSet(st_df, heatmap.player1, heatmap.player2)
       IN /\ c \in Keys(st_df, I, heatmap.player1)
          /\ c \notin Keys(st_df, I, heatmap.player2)
          /\ d \in Keys(st_df, I, heatmap.player2)
          /\ d \notin Keys(st_df, I, heatmap.player1)
          /\ heatmap.matrix.diff.values[c] = <<1>>
          /\ heatmap.matrix.diff.values[d] = <<-1>>

\* the matrix covers exactly the union of the surfaces and the union of the
\* rounds of the two groupings, and a cell of neither grouping holds 0
DenseOverUnion(panel, frame, I) ==
  LET keys == Keys(frame, I, panel.player1) \cup Keys(frame, I, panel.player2)
      diff == panel.matrix.diff
  IN /\ set(diff.index) = {c[1] : c \in keys}
     /\ set(diff.columns) = {c[2] : c \in keys}
     /\ Len(diff.index) = Cardinality(set(diff.index))
     /\ Len(diff.columns) = Cardinality(set(diff.columns))
     /\ DOMAIN diff.values = set(diff.index) \X set(diff.columns)
     /\ Cardinality(DOMAIN diff.values)
          = Cardinality({c[1] : c \in keys}) * Cardinality({c[2] : c \in keys})
     /\ \A c \in {c[1] : c \in keys} \X {c[2] : c \in keys} :
          c \notin keys => diff.values[c] = <<0>>

\* C4: the rows of the difference matrix are exactly the union of the
\* surfaces of the two groupings and its columns the union of their rounds;
\* a cell absent from both groupings is present with value 0
C4_DenseGrid ==
  /\ heatmap.status = "ok" =>
       DenseOverUnion(heatmap, st_df,
                      H2HSet(st_df, heatmap.player1, heatmap.player2))
  /\ cli_diff.status = "ok" =>
       DenseOverUnion(cli_diff, cli_df, AllRows(cli_df))

C4_Witness ==
  /\ heatmap.status = "ok"
  /\ Len(heatmap.matrix.diff.index) = 2
  /\ Len(heatmap.matrix.diff.columns) = 2
  /\ \E c \in DOMAIN heatmap.matrix.diff.values :
       LET I == H2HSet(st_df, heatmap.player1, heatmap.player2)
       IN /\ c \notin Keys(st_df, I, heatmap.player1)
          /\ c \notin Keys(st_df, I, heatmap.player2)
          /\ heatmap.matrix.diff.values[c] = <<0>>

\* the matrix of (B, A) has the labels of the matrix of (A, B) and the
\* negated cells
Negated(ab, ba) ==
  /\ ba.status = "ok"
  /\ ba.matrix.diff.index = ab.matrix.diff.index
  /\ ba.matrix.diff.columns = ab.matrix.diff.columns
  /\ DOMAIN ba.matrix.diff.values = DOMAIN ab.matrix.diff.values
  /\ \A c \in DOMAIN ab.matrix.diff.values :
       /\ ab.matrix.diff.values[c] # NaN
       /\ ba.matrix.diff.values[c] # NaN
       /\ ba.matrix.diff.values[c][1] = 0 - ab.matrix.diff.values[c][1]

\* C5: the matrix computed for (A, B) and the matrix computed for (B, A)
\* have the same rows and columns and every cell of one is the negation of
\* the same cell of the other
C5_AntiSymmetric ==
  /\ heatmap.status = "ok" =>
       Negated(heatmap,
               plot_h2h_heatmap(st_df, heatmap.player2, heatmap.player1))
  /\ cli_diff.status = "ok" =>
       Negated(cli_diff,
               cli_comparison_heatmap(cli_df, cli_diff.player2,
                                      cli_diff.player1))

C5_Witness ==
  /\ cli_diff.status = "ok"
  /\ cli_diff.player1 # cli_diff.player2
  /\ \E c, d \in DOMAIN cli_diff.matrix.diff.values :
       /\ cli_diff.matrix.diff.values[c][1] > 0
       /\ cli_diff.matrix.diff.values[d][1] < 0

\* C6: when a record of the selected two-player subset lacks a surface or a
\* round, no difference matrix is produced
C6_RefusesIncomplete ==
  /\ heatmap.status = "ok" =>
       \A i \in H2HSet(st_df, heatmap.player1, heatmap.player2) :
         ~isnull(st_df[i].Surface) /\ ~isnull(st_df[i].Round)
  /\ cli_diff.status = "ok" =>
       \A i \in AllRows(cli_df) :
         cli_df[i].Winner \in {cli_diff.player1, cli_diff.player2}
           => ~isnull(cli_df[i].Surface) /\ ~isnull(cli_df[i].Round)

\* ------------------------------------------------------- career claims
\* positions of the records of frame in which p is a participant
CareerSet(frame, p) ==
  {i \in 1..Len(frame) : p \in {frame[i].Player_1, frame[i].Player_2}}

\* positions of the records of the selection I whose winner is p
WinsIn(frame, I, p) == {i \in I : frame[i].Winner = p}

\* C11: total_wins <= total_matches, total_matches being the number of
\* records with p as a participant and total_wins the number of records of
\* that selection won by p
C11_WinsAtMostMatches ==
  /\ career.status = "ok" =>
       /\ career.total_matches = Cardinality(CareerSet(st_df, career.player))
       /\ career.wins
            = Cardinality(WinsIn(st_df, CareerSet(st_df, career.player),
                                 career.player))
       /\ career.wins <= career.total_matches
  /\ cli_report.status = "ok" =>
       /\ cli_report.total
            = Cardinality(CareerSet(cli_df, cli_report.selected_player))
       /\ cli_report.wins
            = Cardinality(WinsIn(cli_df,
                                 CareerSet(cli_df, cli_report.selected_player),
                                 cli_report.selected_player))
       /\ cli_report.wins <= cli_report.total

RECURSIVE SumWins(_)
SumWins(entries) ==
  IF entries = <<>> THEN 0 ELSE entries[1].Wins + SumWins(Tail(entries))

RECURSIVE SumOver(_, _)
SumOver(f, D) ==
  IF D = {} THEN 0
  ELSE LET x == CHOOSE x \in D : TRUE IN f[x] + SumOver(f, D \ {x})

\* C12: the counts of wins_by_surface sum to total_wins
C12_SurfaceWinsSumToWins ==
  /\ career.status = "ok" => SumWins(career.surface_wins) = career.wins
  /\ cli_report.status = "ok" =>
       SumOver(cli_report.surf, DOMAIN cli_report.surf) = cli_report.wins

\* win_rate is 100 * wins / total for total > 0 and 0 for total = 0, and lies
\* between 0 and 100
RateIs(win_rate, wins, total) ==
  /\ win_rate.den > 0
  /\ total > 0 => win_rate.num * total = 100 * wins * win_rate.den
  /\ total = 0 => win_rate.num = 0
  /\ 0 <= win_rate.num
  /\ win_rate.num <= 100 * win_rate.den

\* C13: win_rate = 100 * total_wins / total_matches when total_matches > 0
\* and 0 when total_matches = 0, never dividing by zero, and
\* 0 <= win_rate <= 100
C13_WinRate ==
  /\ career.status = "ok" =>
       RateIs(career.win_rate,
              Cardinality(WinsIn(st_df, CareerSet(st_df, career.player),
                                 career.player)),
              Cardinality(CareerSet(st_df, career.player)))
  /\ cli_report.status = "ok" =>
       RateIs(cli_report.win_rate,
              Cardinality(WinsIn(cli_df,
                                 CareerSet(cli_df, cli_report.selected_player),
                                 cli_report.selected_player)),
              Cardinality(CareerSet(cli_df, cli_report.selected_player)))

C15_OrderIndependentSelection ==
  /\ summary.status = "ok" =>
       LET swapped == plot_h2h_summary(st_df, summary.player2, summary.player1)
       IN /\ summary.total
               = Cardinality(H2HSet(st_df, summary.player1, summary.player2))
          /\ swapped.status = "ok"
          /\ swapped.total = summary.total
          /\ swapped.p1_wins = summary.p2_wins
          /\ swapped.p2_wins = summary.p1_wins
  /\ trend.status = "ok" =>
       {trend.rows[i].index : i \in 1..Len(trend.rows)}
         = {st_df[k].index : k \in H2HSet(st_df, trend.player1, trend.player2)}

C15_Witness ==
  /\ summary.status = "ok"
  /\ summary.p1_wins # summary.p2_wins
  /\ \E i \in H2HSet(st_df, summary.player1, summary.player2) :
       st_df[i].Player_1 = summary.player2
  /\ \E i \in 1..Len(st_df) :
       i \notin H2HSet(st_df, summary.player1, summary.player2)

\* C16: wins_by_surface holds only surfaces with at least one win, every such
\* surface, ordered by win count descending
C16_SurfacesByWinsDescending ==
  career.status = "ok" =>
    LET entries == career.surface_wins
        won == WinsIn(st_df, CareerSet(st_df, career.player), career.player)
    IN /\ \A i \in 1..Len(entries) : entries[i].Wins >= 1
       /\ {entries[i].Surface : i \in 1..Len(entries)}
            = {st_df[k].Surface : k \in won}
       /\ \A i, j \in 1..Len(entries) :
            i < j => entries[i].Wins >= entries[j].Wins

\* ------------------------------------------------ matrix label order
Pos(x, order) == CHOOSE i \in 1..Len(order) : order[i] = x

\* q lists labels of order strictly ascending, so each label once
Ascending(q, order) ==
  /\ \A i \in 1..Len(q) : q[i] \in {order[k] : k \in 1..Len(order)}
  /\ \A i, j \in 1..Len(q) : i < j => Pos(q[i], order) < Pos(q[j], order)

\* the file with its records in another order
Reordered(file) ==
  {[i \in 1..Len(file) |-> file[p[i]]] : p \in Perms(Len(file))}

\* C17: the rows (surfaces) and columns (rounds) of the difference matrix are
\* in ascending lexicographic order, each label once, whatever the order in
\* which the records were supplied
C17_SortedLabels ==
  /\ heatmap.status = "ok" =>
       /\ Ascending(heatmap.matrix.diff.index, SurfaceOrder)
       /\ Ascending(heatmap.matrix.diff.columns, RoundOrder)
       /\ \A file \in Reordered(csv) :
            plot_h2h_heatmap(st_frame(file), heatmap.player1,
                             heatmap.player2).matrix.diff
              = heatmap.matrix.diff
  /\ cli_diff.status = "ok" =>
       /\ Ascending(cli_diff.matrix.diff.index, SurfaceOrder)
       /\ Ascending(cli_diff.matrix.diff.columns, RoundOrder)
       /\ \A file \in Reordered(csv) :
            cli_comparison_heatmap(cli_load_data(file), cli_diff.player1,
                                   cli_diff.player2).matrix.diff
              = cli_diff.matrix.diff

C17_Witness ==
  /\ heatmap.status = "ok"
  /\ Len(heatmap.matrix.diff.index) = 2
  /\ Len(heatmap.matrix.diff.columns) = 2
  /\ Pos(csv[1].Surface, SurfaceOrder) > Pos(csv[2].Surface, SurfaceOrder)
  /\ Pos(csv[1].Round, RoundOrder) > Pos(csv[2].Round, RoundOrder)

\* ------------------------------------- independence of surface and round
Labels == (Surfaces \cup {NA}) \X (Rounds \cup {NA})

\* the record set with the surface and round of record i replaced
Relabel(frame, i, c) ==
  [frame EXCEPT ![i].Surface = c[1], ![i].Round = c[2]]

InRange(frame) ==
  {i \in 1..Len(frame) : /\ Year(frame[i].Date) >= year_range[1]
                         /\ Year(frame[i].Date) <= year_range[2]}

\* every panel of the Streamlit application counts the in-range records only
StreamlitPrefiltered ==
  LET L == load_data(csv)
  IN /\ career # None =>
          LET played == CareerSet(L, career.player) \cap InRange(L)
              won == WinsIn(L, played, career.player)
          IN /\ career.status = "empty" <=> played = {}
             /\ career.status = "ok" =>
                  /\ career.total_matches = Cardinality(played)
                  /\ career.wins = Cardinality(won)
                  /\ \A k \in 1..Len(career.surface_wins) :
                       career.surface_wins[k].Wins
                         = Cardinality({i \in won : L[i].Surface
                                          = career.surface_wins[k].Surface})
     /\ summary # None =>
          LET met == H2HSet(L, summary.player1, summary.player2)
                       \cap InRange(L)
          IN /\ summary.status = "empty" <=> met = {}
             /\ summary.status = "ok" =>
                  /\ summary.total = Cardinality(met)
                  /\ summary.p1_wins
                       = Cardinality(WinsIn(L, met, summary.player1))
                  /\ summary.p2_wins
                       = Cardinality(WinsIn(L, met, summary.player2))
     /\ trend.status = "ok" =>
          {trend.rows[k].index : k \in 1..Len(trend.rows)}
            = {L[i].index : i \in H2HSet(L, trend.player1, trend.player2)
                                    \cap InRange(L)}
     /\ heatmap.status = "ok" =>
          CellsAreDifferences(heatmap, L,
                              H2HSet(L, heatmap.player1, heatmap.player2)
                                \cap InRange(L))

\* positions of the records the era choice keeps
EraSet(frame, choice) ==
  LET kept == era_df(frame, choice)
  IN {i \in 1..Len(frame) :
        frame[i].index \in {kept[k].index : k \in 1..Len(kept)}}

\* C19 as stated: every statistic is computed over the record set filtered
\* to the selected era or year range, a record outside the range never
\* contributing
C19_EveryStatisticPrefiltered ==
  /\ StreamlitPrefiltered
  /\ menu.pc = "visuals" =>
       LET era == EraSet(cli_df, menu.choice)
           played == CareerSet(cli_df, cli_report.selected_player) \cap era
       IN /\ cli_report.total = Cardinality(played)
          /\ cli_report.wins
               = Cardinality(WinsIn(cli_df, era, cli_report.selected_player))

\* C19 amended: the Streamlit application computes every statistic over the
\* year-filtered record set; in the command-line program the era restricts
\* only the ranking the player is picked from, the report and the comparison
\* being computed over the whole dataset
C19_StreamlitPrefilteredCliWhole ==
  /\ StreamlitPrefiltered
  /\ menu.pc = "visuals" =>
       \E i \in EraSet(cli_df, menu.choice) :
         cli_df[i].Winner = cli_report.selected_player
  /\ cli_report.status = "ok" =>
       /\ cli_report.total
            = Cardinality(CareerSet(cli_df, cli_report.selected_player))
       /\ cli_report.wins
            = Cardinality(WinsIn(cli_df, AllRows(cli_df),
                                 cli_report.selected_player))
  /\ cli_diff.status = "ok" =>
       CellsAreDifferences(cli_diff, cli_df, AllRows(cli_df))

C19_Witness ==
  /\ career.status = "ok"
  /\ \E i \in CareerSet(load_data(csv), career.player) :
       i \notin InRange(load_data(csv))

\* ------------------------------------------------------- no side effects
\* every panel shown is what the operation returns when it is asked again
Reproducible ==
  /\ career # None => career = plot_career_stats(st_df, career.player)
  /\ summary # None =>
       summary = plot_h2h_summary(st_df, summary.player1, summary.player2)
  /\ trend # None =>
       trend \in plot_h2h_trend(st_df, trend.player1, trend.player2)
  /\ heatmap # None =>
       heatmap = plot_h2h_heatmap(st_df, heatmap.player1, heatmap.player2)
  /\ cli_report # None =>
       cli_report = cli_player_report(cli_df,
                                      cli_report.selected_player)
  /\ cli_diff # None =>
       cli_diff = cli_comparison_heatmap(cli_df, cli_diff.player1,
                                         cli_diff.player2)

C21_EmptyTrend ==
  trend # None =>
    /\ trend.status \in {"empty", "ok"}
    /\ trend.status = "empty"
         <=> H2HSet(st_df, trend.player1, trend.player2) = {}
    /\ trend.status = "empty" => "rows" \notin DOMAIN trend
    /\ trend.status = "ok" => Len(trend.rows) >= 1

C21_Witness ==
  /\ trend.status = "empty"
  /\ st_df # <<>>

\* ------------------------------------------------ command-line loop
\* the texts of the positions 1..N
PositionTexts(N) == {Numerals[k + 2] : k \in 1..N}

\* C22: at the player prompt every answer that is not an integer in 1..N, 0
\* and the negative integers included, is rejected, and the loop restarts at
\* the era step without a report
C22_SelectionWithinList ==
  /\ menu.pc = "visuals" => menu.selection \in PositionTexts(menu.N)
  /\ (menu.pc = "era" /\ "invalid" \in DOMAIN menu) => cli_report = None

\* C23: the head-to-head panels and the two-player comparison are computed
\* only for two different players; for one player selected twice the warning
\* is shown and none of them is computed
C23_DifferentPlayersOnly ==
  /\ summary # None => summary.player1 # summary.player2
  /\ trend # None => trend.player1 # trend.player2
  /\ heatmap # None => heatmap.player1 # heatmap.player2
  /\ comparison # None => comparison.player1 # comparison.player2
  /\ notice # None =>
       /\ notice.status = "warning"
       /\ notice.player1 = notice.player2
       /\ summary = None
       /\ trend = None
       /\ heatmap = None
       /\ comparison = None

C23_Witness ==
  /\ notice.status = "warning"
  /\ notice.analysis_mode = "Head-to-Head Comparison"
  /\ H2HSet(st_df, "X", "Y") # {}

\* the sum of the cells of a matrix
RECURSIVE SumCells(_, _)
SumCells(values, D) ==
  IF D = {} THEN 0
  ELSE LET c == CHOOSE c \in D : TRUE
       IN values[c][1] + SumCells(values, D \ {c})

\* C24: with complete surface and round data the cells of the difference
\* matrix sum to wins[p1] - wins[p2] of the summary, and the cells of the two
\* per-player matrices to wins[p1] and wins[p2]
C24_CellsSumToWins ==
  heatmap.status = "ok" =>
    LET m == heatmap.matrix
    IN /\ summary.status = "ok"
       /\ SumCells(m.diff.values, DOMAIN m.diff.values)
            = summary.p1_wins - summary.p2_wins
       /\ SumCells(m.pivot_p1.values, DOMAIN m.pivot_p1.values)
            = summary.p1_wins
       /\ SumCells(m.pivot_p2.values, DOMAIN m.pivot_p2.values)
            = summary.p2_wins

C24_Witness ==
  /\ heatmap.status = "ok"
  /\ summary.p1_wins = 2
  /\ \E c \in DOMAIN heatmap.matrix.pivot_p1.values :
       heatmap.matrix.pivot_p1.values[c] = <<2>>

\* C25: the Streamlit loader drops every record with a missing date, winner,
\* player, surface or round, so on its data the heatmap never takes the
\* 'Surface and Round data missing' branch, whatever the pair and the range
C25_MissingBranchUnreachable ==
  LET df == load_data(csv)
  IN /\ \A i \in 1..Len(df) :
          /\ df[i].Date # NaT
          /\ NA \notin {df[i].Winner, df[i].Player_1, df[i].Player_2,
                        df[i].Surface, df[i].Round}
     /\ heatmap.status # "missing"
     /\ heatmap # None =>
          \A range \in YearRanges(df), player1 \in Players, player2 \in Players :
            plot_h2h_heatmap(filter_years(df, range), player1,
                             player2).status # "missing"

C25_Witness ==
  /\ heatmap.status = "ok"
  /\ \E i \in 1..Len(csv) :
       /\ NA \in {csv[i].Surface, csv[i].Round}
       /\ {csv[i].Player_1, csv[i].Player_2}
            = {heatmap.player1, heatmap.player2}

\* one step of the command-line loop: the program ends only at the era step
\* by 'q' or at the ranking when no player is ranked; the selection leads to
\* the charts or back to the era step, the charts lead back to the era step;
\* the file is not touched
MenuStep ==
  /\ csv' = csv
  /\ menu'.pc = "done" =>
       \/ menu.pc = "era" /\ menu'.reason = "quit"
       \/ menu.pc = "top_n" /\ menu'.reason = "no_winners"
  /\ menu.pc = "era" => menu'.pc \in {"top_n", "done"}
  /\ menu.pc = "top_n" => menu'.pc \in {"select", "done"}
  /\ menu.pc = "select" => menu'.pc \in {"era", "visuals"}
  /\ menu.pc = "visuals" => menu'.pc = "era"

\* an iteration carries nothing over: after the era step there is the era
\* choice and no report, and the ranking and the report are those of the
\* whole file
FreshIteration ==
  /\ menu.pc = "top_n" =>
       /\ menu = [pc |-> "top_n", choice |-> menu.choice]
       /\ cli_report = None
       /\ cli_diff = None
  /\ menu.pc = "select" =>
       /\ cli_report = None
       /\ cli_diff = None
       /\ \E top_winners \in value_counts_Winner(era_df(cli_df, menu.choice)) :
            menu.top_players_list = head(top_winners, menu.top_n)
  /\ menu.pc = "visuals" =>
       /\ cli_diff = None
       /\ cli_report = cli_player_report(cli_df,
                                         cli_report.selected_player)

\* C26: the command-line loop ends only by 'q' at the era prompt or by an
\* empty list of top players; from an invalid selection, an unknown second
\* player, the charts and the skipped charts control returns to the era step,
\* and every iteration starts from the whole loaded dataset, free of the
\* previous era, top-N and player
C26_LoopControl == [][MenuStep]_vars /\ []FreshIteration

C26_Witness ==
  /\ menu.pc = "era"
  /\ "not_found" \in DOMAIN menu
  /\ cli_report.status = "ok"

\* positions of the records the ranking is computed on: the years 2000-2009,
\* 2010-2019 or from 2020 on for the choices 2, 3 and 4, every record for
\* another choice, and every record when the era has none
RankedSet(frame, choice) ==
  LET all == 1..Len(frame)
      era == IF choice = "2"
             THEN {i \in all : Year(frame[i].Date) \in 2000..2009}
             ELSE IF choice = "3"
             THEN {i \in all : Year(frame[i].Date) \in 2010..2019}
             ELSE IF choice = "4"
             THEN {i \in all : Year(frame[i].Date) >= 2020}
             ELSE all
  IN IF era = {} THEN all ELSE era

\* C27: the choices 2, 3 and 4 restrict the ranking to the years 2000-2009,
\* 2010-2019 and >= 2020, bounds included, every other choice ranks the whole
\* dataset, an empty era falls back to the whole dataset, and the ranking is
\* computed on an empty set only for an empty dataset, when the program ends
\* without selecting a player
C27_EraRanking ==
  /\ menu.pc = "select" =>
       LET ranked == RankedSet(cli_df, menu.choice)
           wins(p) == Cardinality({i \in ranked : cli_df[i].Winner = p})
           names == {cli_df[i].Winner : i \in ranked} \ {NA}
           list == menu.top_players_list
       IN /\ ranked # {}
          /\ {list[k] : k \in 1..Len(list)} \subseteq names
          /\ Len(list) = IF menu.top_n < Cardinality(names)
                         THEN menu.top_n ELSE Cardinality(names)
          /\ \A k \in 1..Len(list), p \in names :
               (\A j \in 1..Len(list) : list[j] # p) =>
                 wins(list[k]) >= wins(p)
          /\ \A j, k \in 1..Len(list) :
               j < k => wins(list[j]) >= wins(list[k])
  /\ cli_df = <<>> =>
       /\ menu.pc \in {"era", "top_n", "done"}
       /\ cli_report = None
  /\ (menu.pc = "done" /\ menu.reason = "no_winners") =>
       /\ cli_report = None
       /\ \/ menu.top_n <= 0
          \/ \A i \in RankedSet(cli_df, menu.choice) : cli_df[i].Winner = NA

C27_Witness ==
  /\ menu.pc = "select"
  /\ menu.choice = "4"
  /\ menu.top_n > 1
  /\ Len(menu.top_players_list) = 1
  /\ \E i \in 1..Len(cli_df) :
       /\ Year(cli_df[i].Date) = 2019
       /\ cli_df[i].Winner # menu.top_players_list[1]

\* ------------------------------------------- InitialCode.py: analyst
\* the typed texts that read 'exit' in some letter case
ExitTexts == {"exit", "Exit", " EXIT"}

\* C28: the analyst loop calls calculate_career_stats only with a name of the
\* Player column; an empty or unknown name asks again without analysis and
\* 'exit' in any letter case ends the loop, so the 'Player not found' outcome
\* is never reached from the loop; the function returns exactly one of
\* (stats, None) and (None, error), the error exactly for a player without
\* rows
C28_AnalystLookup ==
  /\ analyst.pc = "done" =>
       \/ "fatal" \in DOMAIN analyst /\ full_data = <<>>
       \/ "text" \in DOMAIN analyst /\ analyst.text \in ExitTexts
  /\ (analyst.pc = "prompt" /\ "text" \in DOMAIN analyst) =>
       /\ analyst.text \notin ExitTexts
       /\ analyst.called
            <=> \E i \in 1..Len(full_data) :
                  analyst.text \in {full_data[i].Player,
                                    " " \o full_data[i].Player \o " "}
       /\ analyst.called =>
            /\ \E i \in 1..Len(full_data) :
                 full_data[i].Player = analyst.player_input
            /\ analyst.result[1] # PyNone
            /\ analyst.result[2] = PyNone
  /\ \A name \in {strip(text) : text \in Typed} \cup {"x"} :
       LET result == calculate_career_stats(full_data, name)
       IN /\ (result[1] = PyNone) # (result[2] = PyNone)
          /\ result[2] # PyNone
               <=> \A i \in 1..Len(full_data) : full_data[i].Player # name

C28_Witness ==
  /\ analyst.pc = "prompt"
  /\ "text" \in DOMAIN analyst
  /\ analyst.called
  /\ analyst.result[1][1].Total_Wins = 1
  /\ analyst.result[1][1].Total_Matches = 2

====
